---- MODULE Spec2Model ----
(***************************************************************************)
(* Model of build_toefl_vocab.py: the TOEFL lexicon pipeline.              *)
(*                                                                         *)
(* Text is modelled as sequences of Unicode code points, so that Python's  *)
(* string comparison, len() and the regular-expression based normalisers  *)
(* are computed rather than assumed.  Python's None is the value None.    *)
(***************************************************************************)
EXTENDS Integers, Sequences, FiniteSets, TLC

(***************************************************************************)
(* Bounds of the model.                                                    *)
(***************************************************************************)
MaxRank == 3
MaxThreshold == 2
MaxIdLen == 10001
MaxSortLen == 3
MaxFeed == 3

(***************************************************************************)
(* Program constants.                                                      *)
(***************************************************************************)
None == -1
UnknownRankKey == 1000000000
MinIdWidth == 4

Min(a, b) == IF a <= b THEN a ELSE b
Max(a, b) == IF a >= b THEN a ELSE b
Range(s) == {s[i] : i \in 1..Len(s)}

\* Python's str comparison: code point by code point, a proper prefix is smaller.
LexLess(a, b) ==
    \E i \in 1..(Min(Len(a), Len(b)) + 1) :
        /\ \A j \in 1..(i - 1) : a[j] = b[j]
        /\ \/ i > Len(a) /\ i <= Len(b)
           \/ i <= Len(a) /\ i <= Len(b) /\ a[i] < b[i]

(***************************************************************************)
(* Strings of the program and of the modelled inputs.                      *)
(***************************************************************************)
S_abate == <<97, 98, 97, 116, 101>>
S_zephyr == <<122, 101, 112, 104, 121, 114>>
S_ab == <<97, 98>>
S_abc == <<97, 98, 99>>
S_a_z == <<97, 45, 122>>
S_ba == <<98, 97>>
S_jianruo == <<20943, 24369>>
S_hefeng == <<21644, 39118>>
S_tianwen == <<22825, 25991>>
S_dizhi == <<22320, 36136>>
S_AWL == <<65, 87, 76>>
S_xueshutongyong == <<23398, 26415, 36890, 29992>>
S_CET4 == <<67, 69, 84, 52>>
S_CET6 == <<67, 69, 84, 54>>
S_toefl_ == <<116, 111, 101, 102, 108, 95>>
S_n_dot == <<110, 46>>
S_vt_raw == <<118, 116, 46, 32, 38, 32, 118, 105, 46>>
S_phon == <<47, 601, 47>>
S_phon2 == <<47, 230, 47>>
S_v_dot == <<118, 46>>
S_n == <<110>>
S_v == <<118>>

(***************************************************************************)
(* Normalizer.                                                             *)
(***************************************************************************)
IsSpace(c) == c \in {9, 10, 11, 12, 13, 32}

RECURSIVE DropLeading(_, _)
DropLeading(s, cs) ==
    IF s # <<>> /\ Head(s) \in cs THEN DropLeading(Tail(s), cs) ELSE s

RECURSIVE DropTrailing(_, _)
DropTrailing(s, cs) ==
    IF s # <<>> /\ s[Len(s)] \in cs
    THEN DropTrailing(SubSeq(s, 1, Len(s) - 1), cs)
    ELSE s

StripChars(s, cs) == DropTrailing(DropLeading(s, cs), cs)

RECURSIVE CollapseSpaces(_)
CollapseSpaces(s) ==
    IF s = <<>> THEN <<>>
    ELSE IF IsSpace(Head(s))
         THEN <<32>> \o CollapseSpaces(DropLeading(Tail(s), {9, 10, 11, 12, 13, 32}))
         ELSE <<Head(s)>> \o CollapseSpaces(Tail(s))

clean_text(text) ==
    CollapseSpaces(StripChars([i \in 1..Len(text) |->
                                   IF text[i] \in {10, 13} THEN 32 ELSE text[i]],
                              {9, 10, 11, 12, 13, 32}))

\* re.split(r"[\s/;,，]+", pos)[0]
RECURSIVE FirstToken(_)
FirstToken(s) ==
    IF s = <<>> \/ IsSpace(Head(s)) \/ Head(s) \in {47, 59, 44, 65292}
    THEN <<>>
    ELSE <<Head(s)>> \o FirstToken(Tail(s))

normalize_pos(pos) ==
    LET p == clean_text(pos)
        token == StripChars(FirstToken(p), {46})
    IN  IF p = <<>> THEN <<>>
        ELSE IF token = <<>> THEN <<>>
        ELSE token \o <<46>>

(***************************************************************************)
(* Source loaders: the merge of a record into the record already held for  *)
(* its word.                                                               *)
(***************************************************************************)
\* merge_kaj_word with > for >=: an equally long new meaning replaces the old one
merge_kaj_word_strict(old, new) ==
    [meaning |-> IF Len(old.meaning) > Len(new.meaning) THEN old.meaning ELSE new.meaning,
     pos |-> IF old.pos # <<>> THEN old.pos ELSE new.pos]

merge_kaj_word(old, new) ==
    [meaning |-> IF Len(old.meaning) >= Len(new.meaning) THEN old.meaning ELSE new.meaning,
     pos |-> IF old.pos # <<>> THEN old.pos ELSE new.pos]

\* merge_ecdict_row without `old.tags |= info.tags`
merge_ecdict_row_keeps_tags(old, info) ==
    [phonetic |-> IF old.phonetic = <<>> /\ info.phonetic # <<>>
                  THEN info.phonetic ELSE old.phonetic,
     pos |-> IF old.pos = <<>> /\ info.pos # <<>> THEN info.pos ELSE old.pos,
     coca_rank |-> IF old.coca_rank = None /\ info.coca_rank # None
                   THEN info.coca_rank ELSE old.coca_rank,
     meaning |-> IF old.meaning = <<>> /\ info.meaning # <<>>
                 THEN info.meaning ELSE old.meaning,
     tags |-> old.tags]

\* load_ecdict: the in-place update of the row already held for the word
merge_ecdict_row(old, info) ==
    [phonetic |-> IF old.phonetic = <<>> /\ info.phonetic # <<>>
                  THEN info.phonetic ELSE old.phonetic,
     pos |-> IF old.pos = <<>> /\ info.pos # <<>> THEN info.pos ELSE old.pos,
     coca_rank |-> IF old.coca_rank = None /\ info.coca_rank # None
                   THEN info.coca_rank ELSE old.coca_rank,
     meaning |-> IF old.meaning = <<>> /\ info.meaning # <<>>
                 THEN info.meaning ELSE old.meaning,
     tags |-> old.tags \cup info.tags]

(***************************************************************************)
(* Word-keyed mappings.  A mapping is a function whose DOMAIN is its set   *)
(* of keys.                                                                *)
(***************************************************************************)
Words == {S_abate, S_zephyr}

KajRecords ==
    { [meaning |-> S_jianruo, pos |-> S_vt_raw],
      [meaning |-> <<>>, pos |-> <<>>] }

RankValues == {None} \cup (1..MaxRank)

ECDictRecords ==
    { [phonetic |-> S_phon, pos |-> S_n_dot, coca_rank |-> r, tags |-> t,
       meaning |-> S_hefeng] : r \in RankValues, t \in {{}, {"toefl"}} }

SubjectSets == {{S_tianwen}}

Mappings(keys, values) == UNION {[S -> values] : S \in SUBSET keys}

(***************************************************************************)
(* Tier builder and ordering.                                              *)
(***************************************************************************)
rank_of(word, ecdict) ==
    IF word \in DOMAIN ecdict THEN ecdict[word].coca_rank ELSE None

\* SortKey without the word: the key is (0, rank) or (1, 10**9) only
SortKey_without_word(w, ecdict) ==
    LET rank == rank_of(w, ecdict)
    IN  IF rank = None THEN <<1, UnknownRankKey, <<>>>> ELSE <<0, rank, <<>>>>

\* key(w) of sort_words_by_rank, a Python tuple
SortKey(w, ecdict) ==
    LET rank == rank_of(w, ecdict)
    IN  IF rank = None THEN <<1, UnknownRankKey, w>> ELSE <<0, rank, w>>

\* Python's tuple comparison of two keys
KeyLess(k1, k2) ==
    \/ k1[1] < k2[1]
    \/ k1[1] = k2[1] /\ k1[2] < k2[2]
    \/ k1[1] = k2[1] /\ k1[2] = k2[2] /\ LexLess(k1[3], k2[3])

\* One step of a stable sort: w goes after every element whose key is not greater.
InsertByKey(s, w, ecdict) ==
    LET n == Cardinality({i \in 1..Len(s) :
                            ~KeyLess(SortKey(w, ecdict), SortKey(s[i], ecdict))})
    IN  SubSeq(s, 1, n) \o <<w>> \o SubSeq(s, n + 1, Len(s))

\* sorted(iterable, key=key): stable, elements taken in iteration order
RECURSIVE SortedByKey(_, _)
SortedByKey(it, ecdict) ==
    IF it = <<>> THEN <<>>
    ELSE InsertByKey(SortedByKey(SubSeq(it, 1, Len(it) - 1), ecdict),
                     it[Len(it)], ecdict)

\* The orders in which a Python set may be iterated.
Iterations(S) == {s \in [1..Cardinality(S) -> S] : Range(s) = S}

\* sort_words_by_rank: `it` is the iteration of set(words)
sort_words_by_rank(it, ecdict) == SortedByKey(it, ecdict)

\* build_layers with layer_d = set(xiaolai_tags) - layer_c: core is not subtracted
build_layers_d_keeps_core(kaj_map, ecdict_map, xiaolai_tags, awl_words, core_coca_max, full_coca_max) ==
    LET kaj_words == DOMAIN kaj_map
        layer_a == {w \in kaj_words :
                      /\ rank_of(w, ecdict_map) # None
                      /\ rank_of(w, ecdict_map) <= core_coca_max}
        layer_b == kaj_words \cap awl_words
        core == layer_a \cup layer_b
        layer_c == {w \in kaj_words :
                      /\ rank_of(w, ecdict_map) # None
                      /\ core_coca_max < rank_of(w, ecdict_map)
                      /\ rank_of(w, ecdict_map) <= full_coca_max
                      /\ w \notin core}
        layer_d == (DOMAIN xiaolai_tags) \ layer_c
        occupied == core \cup layer_c \cup layer_d
        layer_e == {w \in DOMAIN ecdict_map :
                      w \notin occupied /\ "toefl" \in ecdict_map[w].tags}
        full == core \cup layer_c \cup layer_d \cup layer_e
    IN  [layer_a |-> layer_a, layer_b |-> layer_b, core |-> core,
         layer_c |-> layer_c, layer_d |-> layer_d, layer_e |-> layer_e,
         full |-> full]

\* build_layers whose layer_e takes every unoccupied frequency word, tagged or not
build_layers_e_untagged(kaj_map, ecdict_map, xiaolai_tags, awl_words, core_coca_max, full_coca_max) ==
    LET kaj_words == DOMAIN kaj_map
        layer_a == {w \in kaj_words :
                      /\ rank_of(w, ecdict_map) # None
                      /\ rank_of(w, ecdict_map) <= core_coca_max}
        layer_b == kaj_words \cap awl_words
        core == layer_a \cup layer_b
        layer_c == {w \in kaj_words :
                      /\ rank_of(w, ecdict_map) # None
                      /\ core_coca_max < rank_of(w, ecdict_map)
                      /\ rank_of(w, ecdict_map) <= full_coca_max
                      /\ w \notin core}
        layer_d == ((DOMAIN xiaolai_tags) \ core) \ layer_c
        occupied == core \cup layer_c \cup layer_d
        layer_e == {w \in DOMAIN ecdict_map : w \notin occupied}
        full == core \cup layer_c \cup layer_d \cup layer_e
    IN  [layer_a |-> layer_a, layer_b |-> layer_b, core |-> core,
         layer_c |-> layer_c, layer_d |-> layer_d, layer_e |-> layer_e,
         full |-> full]

build_layers(kaj_map, ecdict_map, xiaolai_tags, awl_words, core_coca_max, full_coca_max) ==
    LET kaj_words == DOMAIN kaj_map
        layer_a == {w \in kaj_words :
                      /\ rank_of(w, ecdict_map) # None
                      /\ rank_of(w, ecdict_map) <= core_coca_max}
        layer_b == kaj_words \cap awl_words
        core == layer_a \cup layer_b
        layer_c == {w \in kaj_words :
                      /\ rank_of(w, ecdict_map) # None
                      /\ core_coca_max < rank_of(w, ecdict_map)
                      /\ rank_of(w, ecdict_map) <= full_coca_max
                      /\ w \notin core}
        layer_d == ((DOMAIN xiaolai_tags) \ core) \ layer_c
        occupied == core \cup layer_c \cup layer_d
        layer_e == {w \in DOMAIN ecdict_map :
                      w \notin occupied /\ "toefl" \in ecdict_map[w].tags}
        full == core \cup layer_c \cup layer_d \cup layer_e
    IN  [layer_a |-> layer_a, layer_b |-> layer_b, core |-> core,
         layer_c |-> layer_c, layer_d |-> layer_d, layer_e |-> layer_e,
         full |-> full]

\* dict.setdefault applied to every word of S
SetDefault(t, S, label) ==
    [w \in (DOMAIN t) \cup S |-> IF w \in DOMAIN t THEN t[w] ELSE label]

\* TierFull with the label of layer_d repeated for layer_e
TierFull_e_as_subject(layers) ==
    LET t1 == [w \in layers.core |-> "core"]
        t2 == SetDefault(t1, layers.layer_c, "extended")
        t3 == SetDefault(t2, layers.layer_d, "subject")
    IN  SetDefault(t3, layers.layer_e, "subject")

TierFull(layers) ==
    LET t1 == [w \in layers.core |-> "core"]
        t2 == SetDefault(t1, layers.layer_c, "extended")
        t3 == SetDefault(t2, layers.layer_d, "subject")
    IN  SetDefault(t3, layers.layer_e, "supplementary")

TierCore(layers) == [w \in layers.core |-> "core"]

\* CoreOrder as the layer_a batch followed by the layer_b batch
CoreOrder_concat(layers, it, ecdict) ==
    sort_words_by_rank(SelectSeq(it, LAMBDA w : w \in layers.layer_a), ecdict)
        \o sort_words_by_rank(SelectSeq(it, LAMBDA w : w \in layers.layer_b), ecdict)

\* core_order = sort_words_by_rank(layers["core"], ecdict_map)
CoreOrder(layers, it, ecdict) == sort_words_by_rank(it, ecdict)

\* [w for w in full_order if not (w in seen or seen.add(w))]
RECURSIVE DedupKeepFirst(_)
DedupKeepFirst(s) ==
    IF s = <<>> THEN <<>>
    ELSE LET front == DedupKeepFirst(SubSeq(s, 1, Len(s) - 1))
             w == s[Len(s)]
         IN  IF w \in Range(front) THEN front ELSE Append(front, w)

\* FullOrder extending with the subject batch before the layer_c batch
FullOrder_subject_first(core_order, sorted_c, sorted_d, sorted_e) ==
    DedupKeepFirst(core_order \o sorted_d \o sorted_c \o sorted_e)

FullOrder(core_order, sorted_c, sorted_d, sorted_e) ==
    DedupKeepFirst(core_order \o sorted_c \o sorted_d \o sorted_e)

(***************************************************************************)
(* Entry assembler.                                                        *)
(***************************************************************************)
choose_meaning(word, kaj_map, ecdict_map) ==
    IF word \in DOMAIN kaj_map /\ kaj_map[word].meaning # <<>>
    THEN kaj_map[word].meaning
    ELSE IF word \in DOMAIN ecdict_map /\ ecdict_map[word].meaning # <<>>
         THEN ecdict_map[word].meaning
         ELSE <<>>

\* choose_pos asking the headword record first
choose_pos_headword_first(word, kaj_map, ecdict_map) ==
    IF word \in DOMAIN kaj_map /\ kaj_map[word].pos # <<>>
    THEN normalize_pos(kaj_map[word].pos)
    ELSE IF word \in DOMAIN ecdict_map /\ ecdict_map[word].pos # <<>>
         THEN ecdict_map[word].pos
         ELSE <<>>

choose_pos(word, kaj_map, ecdict_map) ==
    IF word \in DOMAIN ecdict_map /\ ecdict_map[word].pos # <<>>
    THEN ecdict_map[word].pos
    ELSE IF word \in DOMAIN kaj_map /\ kaj_map[word].pos # <<>>
         THEN normalize_pos(kaj_map[word].pos)
         ELSE <<>>

\* sorted() of a set of strings
SortedStrings(S) ==
    CHOOSE s \in Iterations(S) :
        \A i \in 1..Len(s) : \A j \in 1..Len(s) : i < j => LexLess(s[i], s[j])

build_tags(word, awl_words, xiaolai_tags, ecdict_map) ==
    LET t_awl == IF word \in awl_words THEN <<S_AWL, S_xueshutongyong>> ELSE <<>>
        subj == IF word \in DOMAIN xiaolai_tags
                THEN SortedStrings(xiaolai_tags[word]) ELSE <<>>
        t_subj == t_awl \o SelectSeq(subj, LAMBDA t : t \notin Range(t_awl))
        etags == IF word \in DOMAIN ecdict_map THEN ecdict_map[word].tags ELSE {}
        t_cet4 == IF "cet4" \in etags THEN <<S_CET4>> ELSE <<>>
        t_cet6 == IF "cet6" \in etags THEN <<S_CET6>> ELSE <<>>
    IN  DedupKeepFirst(t_subj \o t_cet4 \o t_cet6)

\* str(n) for n >= 0
RECURSIVE DecimalDigits(_)
DecimalDigits(n) ==
    IF n < 10 THEN <<48 + n>>
    ELSE Append(DecimalDigits(n \div 10), 48 + (n % 10))

\* format(idx, "0{width}d"): zero-padded on the left to at least width
ZeroPad(idx, width) ==
    LET d == DecimalDigits(idx)
    IN  IF Len(d) >= width THEN d
        ELSE [i \in 1..(width - Len(d)) |-> 48] \o d

\* IdWidth without the minimum: len(str(len(words_ordered)))
IdWidth_without_minimum(n) == Len(DecimalDigits(n))

\* width = max(4, len(str(len(words_ordered))))
IdWidth(n) == Max(MinIdWidth, Len(DecimalDigits(n)))

EntryId(idx, width) == S_toefl_ \o ZeroPad(idx, width)

make_entries(words_ordered, tier_by_word, kaj_map, ecdict_map, awl_words, xiaolai_tags) ==
    LET width == IdWidth(Len(words_ordered))
    IN  [idx \in 1..Len(words_ordered) |->
            LET w == words_ordered[idx]
                has == w \in DOMAIN ecdict_map
            IN  [id |-> EntryId(idx, width),
                 word |-> w,
                 phonetic |-> IF has THEN ecdict_map[w].phonetic ELSE <<>>,
                 meaning |-> choose_meaning(w, kaj_map, ecdict_map),
                 pos |-> choose_pos(w, kaj_map, ecdict_map),
                 coca_rank |-> IF has THEN ecdict_map[w].coca_rank ELSE None,
                 tier |-> tier_by_word[w],
                 tags |-> build_tags(w, awl_words, xiaolai_tags, ecdict_map),
                 example |-> <<>>]]

(***************************************************************************)
(* State of a run.                                                         *)
(***************************************************************************)
VARIABLES
    pc,             \* position in main() (or in the function called directly)
    entry,          \* the function that was called
    args,           \* parse_args(): download, core_coca_max, full_coca_max
    fs,             \* what exists under data/
    url_idx,        \* download_sources: index of the next ECDICT url
    events,         \* fetch attempts, existence checks and loader calls so far
    error,          \* the exception that ended the run, or "none"
    missing,        \* assert_sources_exist: the locations listed in the error
    kaj_map, ecdict_map, xiaolai_tags, awl_words,
    layers,
    tier_full, tier_core, core_order, full_order,
    core_entries, full_entries,
    out,            \* output_dir: core_toefl.json, full_toefl.json, stats.txt
    sort_words,     \* sort_words_by_rank called alone: its argument `words`
    sort_out,       \* ... and its result
    id_len,         \* make_entries called alone: len(words_ordered)
    id_idx,         \* ... the loop index idx
    id_val,         \* ... the id of the entry appended last
    merge_kind,     \* a loader's merge loop for one word: "kaj" or "ecdict"
    merge_fed,      \* ... the parsed records of that word met so far
    merge_cur,      \* ... the map's record of the word (<<>> while it has none)
    merge_prev      \* ... the map's record before the last record was met

runVars == <<entry, args, fs, url_idx, events, error, missing>>
srcVars == <<kaj_map, ecdict_map, xiaolai_tags, awl_words>>
orderVars == <<tier_full, tier_core, core_order, full_order>>
entryVars == <<core_entries, full_entries>>
fnVars == <<sort_words, sort_out, id_len, id_idx, id_val,
            merge_kind, merge_fed, merge_cur, merge_prev>>
mainVars == <<runVars, srcVars, layers, orderVars, entryVars, out>>

NoLayers ==
    [layer_a |-> {}, layer_b |-> {}, core |-> {}, layer_c |-> {},
     layer_d |-> {}, layer_e |-> {}, full |-> {}]

NothingWritten == [core |-> "absent", full |-> "absent", stats |-> "absent"]
AllSourcesPresent == [kajweb |-> "ok", ecdict |-> "ok", xiaolai |-> "ok", awl |-> "ok"]

\* No function is being exercised on its own.
FnIdle ==
    /\ sort_words = <<>> /\ sort_out = <<>>
    /\ id_len = 0 /\ id_idx = 0 /\ id_val = <<>>
    /\ merge_kind = "none" /\ merge_fed = <<>>
    /\ merge_cur = <<>> /\ merge_prev = <<>>

NothingBuilt ==
    /\ layers = NoLayers
    /\ tier_full = <<>> /\ tier_core = <<>>
    /\ core_order = <<>> /\ full_order = <<>>
    /\ core_entries = <<>> /\ full_entries = <<>>
    /\ out = NothingWritten

(***************************************************************************)
(* main(), steps 3 to 5.                                                   *)
(***************************************************************************)
BuildLayersStep ==
    /\ pc = "build_layers"
    /\ layers' = build_layers(kaj_map, ecdict_map, xiaolai_tags, awl_words,
                              args.core_coca_max, args.full_coca_max)
    /\ pc' = "tiers"
    /\ UNCHANGED <<runVars, srcVars, orderVars, entryVars, out, fnVars>>

TierOrderStep ==
    /\ pc = "tiers"
    /\ tier_full' = TierFull(layers)
    /\ tier_core' = TierCore(layers)
    /\ \E it \in Iterations(layers.core) :
       \E it_c \in Iterations(layers.layer_c) :
       \E it_d \in Iterations(layers.layer_d) :
       \E it_e \in Iterations(layers.layer_e) :
            /\ core_order' = CoreOrder(layers, it, ecdict_map)
            /\ full_order' = FullOrder(core_order',
                                       sort_words_by_rank(it_c, ecdict_map),
                                       sort_words_by_rank(it_d, ecdict_map),
                                       sort_words_by_rank(it_e, ecdict_map))
    /\ pc' = "make_entries"
    /\ UNCHANGED <<runVars, srcVars, layers, entryVars, out, fnVars>>

MakeEntriesStep ==
    /\ pc = "make_entries"
    /\ core_entries' = make_entries(core_order, tier_core, kaj_map, ecdict_map,
                                    awl_words, xiaolai_tags)
    /\ full_entries' = make_entries(full_order, tier_full, kaj_map, ecdict_map,
                                    awl_words, xiaolai_tags)
    /\ pc' = "write_core"
    /\ UNCHANGED <<runVars, srcVars, layers, orderVars, out, fnVars>>

vars == <<pc, mainVars, fnVars>>

(***************************************************************************)
(* The tiering pipeline on every combination of loaded mappings and        *)
(* accepted thresholds.                                                    *)
(***************************************************************************)
InitCore ==
    /\ pc = "build_layers"
    /\ entry = "main"
    /\ \E c \in 1..MaxThreshold : \E f \in c..MaxThreshold :
          args = [download |-> FALSE, core_coca_max |-> c, full_coca_max |-> f]
    /\ fs = AllSourcesPresent
    /\ url_idx = 1
    /\ events = <<>>
    /\ error = "none"
    /\ missing = <<>>
    /\ kaj_map \in Mappings(Words, KajRecords)
    /\ ecdict_map \in Mappings(Words, ECDictRecords)
    /\ xiaolai_tags \in Mappings(Words, SubjectSets)
    /\ awl_words \in SUBSET Words
    /\ NothingBuilt
    /\ FnIdle

NextCore == BuildLayersStep \/ TierOrderStep \/ MakeEntriesStep

SpecCore == InitCore /\ [][NextCore]_vars

(***************************************************************************)
(* Steps 4 to 6 of main for one word whose headword record and frequency   *)
(* record take every combination of empty and non-empty meaning and pos.   *)
(***************************************************************************)
FieldWords == {S_abate}

\* KajWord values as parse_kaj_entry leaves them: pos is the raw text
KajFieldRecords ==
    [meaning : {<<>>, S_jianruo}, pos : {<<>>, S_vt_raw, S_n, <<46>>}]

\* ECDictWord values as load_ecdict leaves them: pos is already normalized
ECDictFieldRecords ==
    [phonetic : {S_phon}, pos : {<<>>, S_n_dot, S_v_dot}, coca_rank : RankValues,
     tags : {{}, {"toefl"}}, meaning : {<<>>, S_hefeng}]

InitFields ==
    /\ pc = "build_layers"
    /\ entry = "main"
    /\ \E c \in 1..MaxThreshold : \E f \in c..MaxThreshold :
          args = [download |-> FALSE, core_coca_max |-> c, full_coca_max |-> f]
    /\ fs = AllSourcesPresent
    /\ url_idx = 1
    /\ events = <<>>
    /\ error = "none"
    /\ missing = <<>>
    /\ kaj_map \in Mappings(FieldWords, KajFieldRecords)
    /\ ecdict_map \in Mappings(FieldWords, ECDictFieldRecords)
    /\ xiaolai_tags \in Mappings(FieldWords, SubjectSets)
    /\ awl_words \in SUBSET FieldWords
    /\ NothingBuilt
    /\ FnIdle

SpecFields == InitFields /\ [][NextCore]_vars

(***************************************************************************)
(* main(): configuration, optional retrieval, source check, loading and    *)
(* output.  A loader may also be called on its own (entry).                *)
(***************************************************************************)
NumECDictUrls == 2

Sources == <<"kajweb", "ecdict", "xiaolai", "awl">>

FsStates ==
    [kajweb : {"absent", "no_book", "no_toefl_files", "ok"},
     ecdict : {"absent", "no_word_column", "ok"},
     xiaolai : {"absent", "readme_only", "ok"},
     awl : {"absent", "ok"}]

Loaders == {"load_kajweb_toefl", "load_ecdict", "load_xiaolai_subject_tags",
            "load_awl_words"}

LoaderPc(e) ==
    CASE e = "load_kajweb_toefl" -> "load_kajweb"
      [] e = "load_ecdict" -> "load_ecdict"
      [] e = "load_xiaolai_subject_tags" -> "load_xiaolai"
      [] e = "load_awl_words" -> "load_awl"

\* What the files of this model's runs parse to.
KajFiles ==
    { [w \in Words |-> [meaning |-> S_jianruo, pos |-> S_vt_raw]],
      [w \in {S_abate} |-> [meaning |-> <<>>, pos |-> <<>>]] }

ECDictFiles ==
    { [w \in Words |->
          IF w = S_abate
          THEN [phonetic |-> S_phon, pos |-> S_n_dot, coca_rank |-> 1,
                tags |-> {}, meaning |-> S_hefeng]
          ELSE [phonetic |-> <<>>, pos |-> <<>>, coca_rank |-> None,
                tags |-> {"toefl"}, meaning |-> <<>>]],
      [w \in {S_zephyr} |->
          [phonetic |-> S_phon, pos |-> S_n_dot, coca_rank |-> 2,
           tags |-> {}, meaning |-> S_hefeng]] }

XiaolaiFiles == { [w \in {S_zephyr} |-> {S_tianwen, S_dizhi}] }

AwlFiles == { {}, {S_zephyr} }

\* ConfigRejected without the comparison of the two thresholds
ConfigRejected_without_order(a) ==
    a.core_coca_max <= 0 \/ a.full_coca_max <= 0

\* main, lines 779-782: the thresholds that raise ValueError
ConfigRejected(a) ==
    \/ a.core_coca_max <= 0 \/ a.full_coca_max <= 0
    \/ a.full_coca_max < a.core_coca_max

\* MissingSources without the check of the subject repository
MissingSources_without_xiaolai(f) ==
    SelectSeq(Sources, LAMBDA src : src # "xiaolai" /\ f[src] = "absent")

\* assert_sources_exist: the locations that do not exist, in the order checked
MissingSources(f) == SelectSeq(Sources, LAMBDA src : f[src] = "absent")

Raise(exc) == pc' = "failed" /\ error' = exc

\* return from a loader: on to the next step of main, or back to the caller
Return(next) == pc' = (IF entry = "main" THEN next ELSE "returned") /\ error' = error

Init ==
    /\ entry \in {"main"} \cup Loaders
    /\ pc = (IF entry = "main" THEN "config" ELSE LoaderPc(entry))
    /\ \/ /\ entry = "main"
          /\ args \in [download : BOOLEAN, core_coca_max : 0..MaxThreshold,
                       full_coca_max : 0..MaxThreshold]
       \/ /\ entry # "main"
          /\ args = [download |-> FALSE, core_coca_max |-> 1, full_coca_max |-> 1]
    /\ fs \in FsStates
    /\ url_idx = 1
    /\ events = <<>>
    /\ error = "none"
    /\ missing = <<>>
    /\ kaj_map = <<>> /\ ecdict_map = <<>> /\ xiaolai_tags = <<>> /\ awl_words = {}
    /\ NothingBuilt
    /\ FnIdle

CheckConfig ==
    /\ pc = "config"
    /\ IF ConfigRejected(args)
       THEN Raise("ValueError")
       ELSE /\ pc' = (IF args.download THEN "dl_kajweb" ELSE "assert_sources")
            /\ error' = error
    /\ UNCHANGED <<entry, args, fs, url_idx, events, missing, srcVars, layers,
                   orderVars, entryVars, out, fnVars>>

Fetch(src, loc, ok) == [op |-> "fetch", src |-> src, loc |-> loc, ok |-> ok]

\* download_sources, lines 100-104: git clone of the headword repository
DownloadKajweb ==
    /\ pc = "dl_kajweb"
    /\ IF fs.kajweb = "absent"
       THEN \E got \in {"failed", "no_book", "no_toefl_files", "ok"} :
               /\ events' = Append(events, Fetch("kajweb", 1, got # "failed"))
               /\ IF got = "failed"
                  THEN Raise("CalledProcessError") /\ fs' = fs
                  ELSE /\ fs' = [fs EXCEPT !.kajweb = got]
                       /\ pc' = "dl_xiaolai" /\ error' = error
       ELSE /\ pc' = "dl_xiaolai"
            /\ UNCHANGED <<fs, events, error>>
    /\ UNCHANGED <<entry, args, url_idx, missing, srcVars, layers,
                   orderVars, entryVars, out, fnVars>>

\* download_sources, lines 106-117: git clone of the subject repository
DownloadXiaolai ==
    /\ pc = "dl_xiaolai"
    /\ IF fs.xiaolai = "absent"
       THEN \E got \in {"failed", "readme_only", "ok"} :
               /\ events' = Append(events, Fetch("xiaolai", 1, got # "failed"))
               /\ IF got = "failed"
                  THEN Raise("CalledProcessError") /\ fs' = fs
                  ELSE /\ fs' = [fs EXCEPT !.xiaolai = got]
                       /\ pc' = "dl_ecdict" /\ error' = error
       ELSE /\ pc' = "dl_ecdict"
            /\ UNCHANGED <<fs, events, error>>
    /\ UNCHANGED <<entry, args, url_idx, missing, srcVars, layers,
                   orderVars, entryVars, out, fnVars>>

\* download_sources, lines 119-125 and 136-137: is ecdict.csv there already?
DownloadECDictCheck ==
    /\ pc = "dl_ecdict"
    /\ pc' = (IF fs.ecdict = "absent" THEN "dl_ecdict_try" ELSE "dl_awl")
    /\ url_idx' = 1
    /\ UNCHANGED <<entry, args, fs, events, error, missing, srcVars, layers,
                   orderVars, entryVars, out, fnVars>>

\* The number of locations download_sources knows for a source.
NumLocations(src) == IF src = "ecdict" THEN NumECDictUrls ELSE 1

\* DownloadECDictTry giving up at the first url that fails
DownloadECDictTry_no_fallthrough ==
    /\ pc = "dl_ecdict_try"
    /\ url_idx <= NumECDictUrls
    /\ \E got \in {"failed", "no_word_column", "ok"} :
          /\ events' = Append(events, Fetch("ecdict", url_idx, got # "failed"))
          /\ IF got = "failed"
             THEN /\ Raise("RuntimeError")
                  /\ UNCHANGED <<fs, url_idx>>
             ELSE /\ fs' = [fs EXCEPT !.ecdict = got]
                  /\ pc' = "dl_awl"
                  /\ url_idx' = 1
                  /\ error' = error
    /\ UNCHANGED <<entry, args, missing, srcVars, layers,
                   orderVars, entryVars, out, fnVars>>

\* download_sources, lines 126-133: one pass of `for url in ecdict_urls`
DownloadECDictTry ==
    /\ pc = "dl_ecdict_try"
    /\ url_idx <= NumECDictUrls
    /\ \E got \in {"failed", "no_word_column", "ok"} :
          /\ events' = Append(events, Fetch("ecdict", url_idx, got # "failed"))
          /\ IF got = "failed"
             THEN /\ url_idx' = url_idx + 1
                  /\ UNCHANGED <<pc, fs>>
             ELSE /\ fs' = [fs EXCEPT !.ecdict = got]
                  /\ pc' = "dl_awl"
                  /\ url_idx' = 1
    /\ UNCHANGED <<entry, args, error, missing, srcVars, layers,
                   orderVars, entryVars, out, fnVars>>

\* download_sources, lines 134-135: every url failed
DownloadECDictExhausted ==
    /\ pc = "dl_ecdict_try"
    /\ url_idx > NumECDictUrls
    /\ Raise("RuntimeError")
    /\ UNCHANGED <<entry, args, fs, url_idx, events, missing, srcVars, layers,
                   orderVars, entryVars, out, fnVars>>

\* download_sources, lines 139-163: the academic word list, one location
DownloadAwl ==
    /\ pc = "dl_awl"
    /\ IF fs.awl = "absent"
       THEN \E got \in {"failed", "not_json", "no_words", "ok"} :
               /\ events' = Append(events, Fetch("awl", 1, got # "failed"))
               /\ IF got = "failed"
                  THEN Raise("RequestException") /\ fs' = fs
                  ELSE IF got = "not_json"
                  THEN Raise("JSONDecodeError") /\ fs' = fs
                  ELSE IF got = "no_words"
                  THEN Raise("RuntimeError") /\ fs' = fs
                  ELSE /\ fs' = [fs EXCEPT !.awl = "ok"]
                       /\ pc' = "assert_sources" /\ error' = error
       ELSE /\ pc' = "assert_sources"
            /\ UNCHANGED <<fs, events, error>>
    /\ UNCHANGED <<entry, args, url_idx, missing, srcVars, layers,
                   orderVars, entryVars, out, fnVars>>

AssertSourcesExist ==
    /\ pc = "assert_sources"
    /\ events' = events \o [i \in 1..Len(Sources) |-> [op |-> "exists", src |-> Sources[i]]]
    /\ missing' = MissingSources(fs)
    /\ IF missing' # <<>>
       THEN Raise("FileNotFoundError")
       ELSE pc' = "load_kajweb" /\ error' = error
    /\ UNCHANGED <<entry, args, fs, url_idx, srcVars, layers,
                   orderVars, entryVars, out, fnVars>>

Load(src, result) ==
    [op |-> "load", src |-> src, present |-> fs[src] # "absent", result |-> result]

LoadKajweb ==
    /\ pc = "load_kajweb"
    /\ IF fs.kajweb \in {"absent", "no_book", "no_toefl_files"}
       THEN /\ events' = Append(events, Load("kajweb", "raised"))
            /\ Raise("FileNotFoundError")
            /\ kaj_map' = kaj_map
       ELSE /\ events' = Append(events, Load("kajweb", "returned"))
            /\ kaj_map' \in KajFiles
            /\ Return("load_ecdict")
    /\ UNCHANGED <<entry, args, fs, url_idx, missing, ecdict_map, xiaolai_tags,
                   awl_words, layers, orderVars, entryVars, out, fnVars>>

LoadECDict ==
    /\ pc = "load_ecdict"
    /\ IF fs.ecdict = "absent"
       THEN /\ events' = Append(events, Load("ecdict", "raised"))
            /\ Raise("FileNotFoundError")
            /\ ecdict_map' = ecdict_map
       ELSE IF fs.ecdict = "no_word_column"
       THEN /\ events' = Append(events, Load("ecdict", "raised"))
            /\ Raise("RuntimeError")
            /\ ecdict_map' = ecdict_map
       ELSE /\ events' = Append(events, Load("ecdict", "returned"))
            /\ ecdict_map' \in ECDictFiles
            /\ Return("load_xiaolai")
    /\ UNCHANGED <<entry, args, fs, url_idx, missing, kaj_map, xiaolai_tags,
                   awl_words, layers, orderVars, entryVars, out, fnVars>>

LoadXiaolai ==
    /\ pc = "load_xiaolai"
    /\ events' = Append(events, Load("xiaolai", "returned"))
    /\ IF fs.xiaolai \in {"absent", "readme_only"}
       THEN xiaolai_tags' = <<>>
       ELSE xiaolai_tags' \in XiaolaiFiles \cup {<<>>}
    /\ Return("load_awl")
    /\ UNCHANGED <<entry, args, fs, url_idx, missing, kaj_map, ecdict_map,
                   awl_words, layers, orderVars, entryVars, out, fnVars>>

LoadAwl ==
    /\ pc = "load_awl"
    /\ IF fs.awl = "absent"
       THEN /\ events' = Append(events, Load("awl", "raised"))
            /\ Raise("FileNotFoundError")
            /\ awl_words' = awl_words
       ELSE /\ events' = Append(events, Load("awl", "returned"))
            /\ awl_words' \in AwlFiles
            /\ Return("build_layers")
    /\ UNCHANGED <<entry, args, fs, url_idx, missing, kaj_map, ecdict_map,
                   xiaolai_tags, layers, orderVars, entryVars, out, fnVars>>

\* write_json / write_stats: the file is written, or the write raises and leaves
\* no file or a truncated one
WriteFile(f, next) ==
    \E r \in {"written", "absent", "partial"} :
        /\ out' = [out EXCEPT ![f] = r]
        /\ IF r = "written" THEN pc' = next /\ error' = error ELSE Raise("OSError")

WriteCore ==
    /\ pc = "write_core"
    /\ WriteFile("core", "write_full")
    /\ UNCHANGED <<entry, args, fs, url_idx, events, missing, srcVars, layers,
                   orderVars, entryVars, fnVars>>

WriteFull ==
    /\ pc = "write_full"
    /\ WriteFile("full", "write_stats")
    /\ UNCHANGED <<entry, args, fs, url_idx, events, missing, srcVars, layers,
                   orderVars, entryVars, fnVars>>

WriteStats ==
    /\ pc = "write_stats"
    /\ WriteFile("stats", "done")
    /\ UNCHANGED <<entry, args, fs, url_idx, events, missing, srcVars, layers,
                   orderVars, entryVars, fnVars>>

Next ==
    \/ CheckConfig
    \/ DownloadKajweb \/ DownloadXiaolai
    \/ DownloadECDictCheck \/ DownloadECDictTry \/ DownloadECDictExhausted
    \/ DownloadAwl
    \/ AssertSourcesExist
    \/ LoadKajweb \/ LoadECDict \/ LoadXiaolai \/ LoadAwl
    \/ BuildLayersStep \/ TierOrderStep \/ MakeEntriesStep
    \/ WriteCore \/ WriteFull \/ WriteStats

Spec == Init /\ [][Next]_vars

(***************************************************************************)
(* sort_words_by_rank on its own: any iterable of words (repeats allowed), *)
(* any frequency mapping, any iteration order of set(words).               *)
(***************************************************************************)
SortWords == {S_ab, S_abc, S_a_z, S_ba}

\* Frequency rows that differ in rank only: no rank, or one of two ranks.
RankOnlyRecords == {r \in ECDictRecords : r.tags = {} /\ r.coca_rank \in {None, 1, 2}}

SeqsUpTo(S, n) == UNION {[1..k -> S] : k \in 0..n}

\* A run in which only the named function is exercised.
NoRun ==
    /\ entry = "function"
    /\ args = [download |-> FALSE, core_coca_max |-> 1, full_coca_max |-> 1]
    /\ fs = AllSourcesPresent
    /\ url_idx = 1
    /\ events = <<>>
    /\ error = "none"
    /\ missing = <<>>
    /\ NothingBuilt

InitSort ==
    /\ pc = "sort"
    /\ NoRun
    /\ kaj_map = <<>> /\ xiaolai_tags = <<>> /\ awl_words = {}
    /\ ecdict_map \in Mappings(SortWords, RankOnlyRecords)
    /\ sort_words \in SeqsUpTo(SortWords, MaxSortLen)
    /\ sort_out = <<>>
    /\ id_len = 0 /\ id_idx = 0 /\ id_val = <<>>
    /\ merge_kind = "none" /\ merge_fed = <<>>
    /\ merge_cur = <<>> /\ merge_prev = <<>>

SortStep ==
    /\ pc = "sort"
    /\ \E it \in Iterations(Range(sort_words)) :
          sort_out' = sort_words_by_rank(it, ecdict_map)
    /\ pc' = "sorted"
    /\ UNCHANGED <<mainVars, sort_words, id_len, id_idx, id_val,
                   merge_kind, merge_fed, merge_cur, merge_prev>>

SpecSort == InitSort /\ [][SortStep]_vars

(***************************************************************************)
(* make_entries on its own, for lists too long to come out of the small    *)
(* mappings above: only the numbering depends on the length.               *)
(***************************************************************************)
IdLens == {1, 10, 9999, 10000, MaxIdLen}

InitId ==
    /\ pc = "ids"
    /\ NoRun
    /\ kaj_map = <<>> /\ ecdict_map = <<>> /\ xiaolai_tags = <<>> /\ awl_words = {}
    /\ sort_words = <<>> /\ sort_out = <<>>
    /\ id_len \in IdLens
    /\ id_idx = 0
    /\ id_val = <<>>
    /\ merge_kind = "none" /\ merge_fed = <<>>
    /\ merge_cur = <<>> /\ merge_prev = <<>>

\* one iteration of `for idx, w in enumerate(words_ordered, start=1)`
IdStep ==
    /\ pc = "ids"
    /\ id_idx < id_len
    /\ id_idx' = id_idx + 1
    /\ id_val' = EntryId(id_idx + 1, IdWidth(id_len))
    /\ UNCHANGED <<pc, mainVars, sort_words, sort_out, id_len,
                   merge_kind, merge_fed, merge_cur, merge_prev>>

\* The entry lists of the pipeline together with the numbering of long lists.
SpecEntries == (InitCore \/ InitId) /\ [][NextCore \/ IdStep]_vars

(***************************************************************************)
(* The merge loop of load_kajweb_toefl and of load_ecdict for one word:    *)
(* the parsed records of that word arrive one by one.                      *)
(***************************************************************************)
KajInfos ==
    { [meaning |-> m, pos |-> p] :
        m \in {<<>>, S_jianruo, S_hefeng, S_xueshutongyong},
        p \in {<<>>, S_n, S_v} }

ECDictTexts ==
    { <<<<>>, <<>>, <<>>>>, <<S_phon, <<>>, S_hefeng>>,
      <<<<>>, S_n_dot, <<>>>>, <<S_phon2, S_v_dot, S_jianruo>> }

ECDictInfos ==
    { [phonetic |-> t[1], pos |-> t[2], coca_rank |-> r, tags |-> g, meaning |-> t[3]] :
        t \in ECDictTexts, r \in {None, 1, 2}, g \in {{}, {"toefl"}} }

InitMerge ==
    /\ pc = "merge"
    /\ NoRun
    /\ kaj_map = <<>> /\ ecdict_map = <<>> /\ xiaolai_tags = <<>> /\ awl_words = {}
    /\ sort_words = <<>> /\ sort_out = <<>>
    /\ id_len = 0 /\ id_idx = 0 /\ id_val = <<>>
    /\ merge_kind \in {"kaj", "ecdict"}
    /\ merge_fed = <<>>
    /\ merge_cur = <<>>
    /\ merge_prev = <<>>

\* load_kajweb_toefl: `if w in kaj_map: merge ... else: kaj_map[w] = info`
LoadKajRecord ==
    /\ pc = "merge" /\ merge_kind = "kaj"
    /\ Len(merge_fed) < MaxFeed
    /\ \E info \in KajInfos :
          /\ merge_fed' = Append(merge_fed, info)
          /\ merge_cur' = IF merge_cur = <<>> THEN <<info>>
                          ELSE <<merge_kaj_word(merge_cur[1], info)>>
    /\ merge_prev' = merge_cur
    /\ UNCHANGED <<pc, mainVars, sort_words, sort_out, id_len, id_idx, id_val,
                   merge_kind>>

\* load_ecdict: `old = ecdict_map.get(word)`, store or update in place
LoadECDictRow ==
    /\ pc = "merge" /\ merge_kind = "ecdict"
    /\ Len(merge_fed) < MaxFeed
    /\ \E info \in ECDictInfos :
          /\ merge_fed' = Append(merge_fed, info)
          /\ merge_cur' = IF merge_cur = <<>> THEN <<info>>
                          ELSE <<merge_ecdict_row(merge_cur[1], info)>>
    /\ merge_prev' = merge_cur
    /\ UNCHANGED <<pc, mainVars, sort_words, sort_out, id_len, id_idx, id_val,
                   merge_kind>>

SpecMerge == InitMerge /\ [][LoadKajRecord \/ LoadECDictRow]_vars

\* The record a loader holds for a word after meeting its records in the order recs.
RECURSIVE LoadedRecord(_, _)
LoadedRecord(kind, recs) ==
    IF recs = <<>> THEN <<>>
    ELSE LET held == LoadedRecord(kind, SubSeq(recs, 1, Len(recs) - 1))
             info == recs[Len(recs)]
         IN  IF held = <<>> THEN <<info>>
             ELSE IF kind = "kaj" THEN <<merge_kaj_word(held[1], info)>>
             ELSE <<merge_ecdict_row(held[1], info)>>

(***************************************************************************)
(* Positions of main() at which a stage has completed.                     *)
(***************************************************************************)
AfterEntries == {"write_core", "write_full", "write_stats", "done"}
AfterLayers == {"tiers", "make_entries"} \cup AfterEntries
LayersBuilt == pc \in AfterLayers \/ (pc = "failed" /\ error = "OSError")
EntriesBuilt == pc \in AfterEntries \/ (pc = "failed" /\ error = "OSError")

WordsOf(entries) == {entries[i].word : i \in 1..Len(entries)}

(***************************************************************************)
(* C1 as stated: the five sets layer_a, layer_b, layer_c, layer_d and      *)
(* layer_e returned by build_layers are pairwise disjoint.                 *)
(***************************************************************************)
C1_FiveLayersPairwiseDisjoint ==
    LayersBuilt =>
        LET L == <<layers.layer_a, layers.layer_b, layers.layer_c,
                   layers.layer_d, layers.layer_e>>
        IN  \A i \in 1..5 : \A j \in 1..5 : i # j => L[i] \cap L[j] = {}

(***************************************************************************)
(* C1 amended: core (= layer_a \cup layer_b), layer_c, layer_d and layer_e *)
(* are pairwise disjoint, so each of layer_a and layer_b is disjoint from  *)
(* layer_c, layer_d and layer_e; layer_a and layer_b may share words.      *)
(***************************************************************************)
C1_CoreAndLaterLayersDisjoint ==
    LayersBuilt =>
        LET L == <<layers.core, layers.layer_c, layers.layer_d, layers.layer_e>>
        IN  /\ layers.core = layers.layer_a \cup layers.layer_b
            /\ \A i \in 1..4 : \A j \in 1..4 : i # j => L[i] \cap L[j] = {}

C1_Witness ==
    /\ LayersBuilt
    /\ layers.layer_a \cap layers.layer_b # {}
    /\ layers.layer_d # {}
    /\ (DOMAIN xiaolai_tags) \cap layers.core # {}

(***************************************************************************)
(* C2: every entry of the full list carries the label of the first layer,  *)
(* in the priority core, extended (layer_c), subject (layer_d),            *)
(* supplementary (layer_e), that contains its word; every entry of the     *)
(* core list carries the label core; a word that is only in layer_e is in  *)
(* the full list with tier supplementary and is not in the core list.      *)
(***************************************************************************)
FirstTier(w) ==
    IF w \in layers.core THEN "core"
    ELSE IF w \in layers.layer_c THEN "extended"
    ELSE IF w \in layers.layer_d THEN "subject"
    ELSE IF w \in layers.layer_e THEN "supplementary"
    ELSE "none"

C2_TierIsFirstLayer ==
    EntriesBuilt =>
        /\ \A i \in 1..Len(full_entries) :
              full_entries[i].tier = FirstTier(full_entries[i].word)
        /\ \A i \in 1..Len(core_entries) : core_entries[i].tier = "core"
        /\ \A w \in layers.layer_e \ (layers.core \cup layers.layer_c \cup layers.layer_d) :
              /\ \E i \in 1..Len(full_entries) :
                    full_entries[i].word = w /\ full_entries[i].tier = "supplementary"
              /\ w \notin WordsOf(core_entries)

C2_Witness ==
    /\ EntriesBuilt
    /\ \E i \in 1..Len(full_entries) : full_entries[i].tier = "supplementary"
    /\ \E i \in 1..Len(full_entries) : full_entries[i].tier = "core"
    /\ core_entries # <<>>

(***************************************************************************)
(* C3: no word appears twice in the core list and none appears twice in   *)
(* the full list.                                                         *)
(***************************************************************************)
C3_WordsUnique ==
    EntriesBuilt =>
        /\ Cardinality(WordsOf(core_entries)) = Len(core_entries)
        /\ Cardinality(WordsOf(full_entries)) = Len(full_entries)

C3_Witness ==
    /\ EntriesBuilt
    /\ layers.layer_a \cap layers.layer_b # {}
    /\ Len(core_entries) = 1
    /\ Len(full_entries) = 2

(***************************************************************************)
(* C6: a word with no known rank, not in the academic set, with no subject *)
(* tag and no exam-category tag in the frequency mapping is in none of the *)
(* seven tier sets and in neither output list, whether or not it is a      *)
(* headword; every emitted word has one of these signals.                  *)
(***************************************************************************)
HasSignal(w) ==
    \/ rank_of(w, ecdict_map) # None
    \/ w \in awl_words
    \/ w \in DOMAIN xiaolai_tags
    \/ w \in DOMAIN ecdict_map /\ "toefl" \in ecdict_map[w].tags

C6_UnsignalledWordsExcluded ==
    /\ LayersBuilt =>
          \A w \in Words : ~HasSignal(w) =>
              /\ w \notin layers.layer_a /\ w \notin layers.layer_b
              /\ w \notin layers.core /\ w \notin layers.layer_c
              /\ w \notin layers.layer_d /\ w \notin layers.layer_e
              /\ w \notin layers.full
    /\ EntriesBuilt =>
          \A w \in WordsOf(core_entries) \cup WordsOf(full_entries) : HasSignal(w)

C6_Witness ==
    /\ EntriesBuilt
    /\ \E w \in DOMAIN kaj_map : w \in DOMAIN ecdict_map /\ ~HasSignal(w)
    /\ full_entries # <<>>

(***************************************************************************)
(* C5: in the result of sort_words_by_rank every word with a known rank    *)
(* precedes every word without one; known ranks ascend, r1 < r2 putting    *)
(* the r1 word first; words of equal known rank, and words without rank,   *)
(* are in ascending lexical order; the result is a permutation of the      *)
(* input set and is the same for every iteration order of the input.       *)
(***************************************************************************)
C5_SortedByRankThenWord ==
    pc = "sorted" =>
        LET S == Range(sort_words)
            r(w) == rank_of(w, ecdict_map)
        IN  /\ Range(sort_out) = S
            /\ Len(sort_out) = Cardinality(S)
            /\ \A i \in 1..Len(sort_out) : \A j \in 1..Len(sort_out) :
                  i < j =>
                      LET a == sort_out[i]
                          b == sort_out[j]
                      IN  /\ r(a) = None => r(b) = None
                          /\ (r(a) # None /\ r(b) # None) => r(a) <= r(b)
                          /\ r(a) = r(b) => LexLess(a, b)
            /\ \A it \in Iterations(S) : sort_words_by_rank(it, ecdict_map) = sort_out

C5_Witness ==
    /\ pc = "sorted"
    /\ Len(sort_out) = 3
    /\ rank_of(sort_out[1], ecdict_map) # None
    /\ rank_of(sort_out[1], ecdict_map) = rank_of(sort_out[2], ecdict_map)
    /\ rank_of(sort_out[3], ecdict_map) = None
    /\ sort_out[1] = S_a_z /\ sort_out[2] = S_ab
    /\ sort_words # sort_out

(***************************************************************************)
(* C4: in a list of length N the i-th entry has the id toefl_ followed by  *)
(* i in decimal, zero-padded to width max(4, number of digits of N), for   *)
(* every i in 1..N; the core list and the full list are each numbered      *)
(* from 1.                                                                 *)
(***************************************************************************)
NumDigits(n) == IF n = 0 THEN 1 ELSE CHOOSE k \in 1..12 : 10^(k-1) <= n /\ n < 10^k

RECURSIVE DecimalValue(_)
DecimalValue(s) ==
    IF s = <<>> THEN 0
    ELSE 10 * DecimalValue(SubSeq(s, 1, Len(s) - 1)) + (s[Len(s)] - 48)

IdIs(id, i, n) ==
    LET w == IF NumDigits(n) > 4 THEN NumDigits(n) ELSE 4
        digits == SubSeq(id, 7, Len(id))
    IN  /\ Len(id) = 6 + w
        /\ SubSeq(id, 1, 6) = S_toefl_
        /\ \A k \in 1..Len(digits) : digits[k] \in 48..57
        /\ DecimalValue(digits) = i

C4_IdsSequentialPadded ==
    /\ (pc = "ids" /\ id_idx >= 1) => IdIs(id_val, id_idx, id_len)
    /\ EntriesBuilt =>
          /\ \A i \in 1..Len(core_entries) :
                IdIs(core_entries[i].id, i, Len(core_entries))
          /\ \A i \in 1..Len(full_entries) :
                IdIs(full_entries[i].id, i, Len(full_entries))

C4_Witness ==
    /\ pc = "ids"
    /\ id_len = 10000
    /\ id_idx = 42
    /\ id_val = S_toefl_ \o <<48, 48, 48, 52, 50>>

(***************************************************************************)
(* C10: for both record types, a record identical to one already merged    *)
(* for the word leaves the merged record unchanged; loading a record once  *)
(* or twice gives the same merged record.                                  *)
(***************************************************************************)
C10_MergeIdempotent ==
    (/\ pc = "merge"
     /\ Len(merge_fed) >= 2
     /\ merge_fed[Len(merge_fed)] \in Range(SubSeq(merge_fed, 1, Len(merge_fed) - 1)))
        => merge_cur = merge_prev

C10_Witness ==
    /\ pc = "merge"
    /\ merge_kind = "ecdict"
    /\ Len(merge_fed) = 3
    /\ merge_fed[3] = merge_fed[1]
    /\ merge_fed[2] # merge_fed[1]
    /\ merge_cur # <<merge_fed[1]>>
    /\ merge_cur # <<merge_fed[2]>>

(***************************************************************************)
(* C7: a run, also one that fails after entry assembly has begun, ends     *)
(* with the core list, the full list and the stats report all written or   *)
(* with none of them written.                                              *)
(***************************************************************************)
C7_OutputsAllOrNothing ==
    (entry = "main" /\ pc \in {"done", "failed"}) =>
        \/ \A f \in {"core", "full", "stats"} : out[f] = "written"
        \/ \A f \in {"core", "full", "stats"} : out[f] # "written"

(***************************************************************************)
(* C8: with coreMax <= 0, fullMax <= 0 or fullMax < coreMax the run ends   *)
(* in a configuration error before any retrieval, any existence check and  *)
(* any loader call, and writes nothing; coreMax = fullMax > 0 is accepted. *)
(***************************************************************************)
BadThresholds ==
    \/ args.core_coca_max <= 0
    \/ args.full_coca_max <= 0
    \/ args.full_coca_max < args.core_coca_max

C8_BadConfigRejectedFirst ==
    entry = "main" =>
        /\ BadThresholds =>
              /\ pc \in {"config", "failed"}
              /\ pc = "failed" => error = "ValueError"
              /\ events = <<>>
              /\ out = NothingWritten
              /\ kaj_map = <<>> /\ ecdict_map = <<>>
              /\ xiaolai_tags = <<>> /\ awl_words = {}
        /\ (args.core_coca_max = args.full_coca_max /\ args.core_coca_max > 0) =>
              /\ error # "ValueError"
              /\ pc = "failed" => events # <<>>

C8_Witness ==
    /\ entry = "main"
    /\ pc = "failed" /\ error = "ValueError"
    /\ args.core_coca_max > args.full_coca_max /\ args.full_coca_max > 0
    /\ args.download
    /\ fs.kajweb = "absent" /\ fs.awl = "absent"

(***************************************************************************)
(* C9 as stated: each of the four loaders, called on a location that does  *)
(* not exist, raises the missing-source error and returns no mapping; in a *)
(* run, a location absent after the retrieval step aborts the run before   *)
(* any loader is called, with every missing location listed.               *)
(***************************************************************************)
LoadEvents == {i \in 1..Len(events) : events[i].op = "load"}

RunAbortsOnMissingSource ==
    (entry = "main" /\ pc \notin {"config", "dl_kajweb", "dl_xiaolai", "dl_ecdict",
                                  "dl_ecdict_try", "dl_awl", "assert_sources"}
                    /\ error \notin {"ValueError", "CalledProcessError",
                                     "RuntimeError", "RequestException",
                                     "JSONDecodeError"}
                    /\ \E i \in 1..Len(Sources) : fs[Sources[i]] = "absent")
        => /\ pc = "failed" /\ error = "FileNotFoundError"
           /\ LoadEvents = {}
           /\ Range(missing) = {Sources[i] : i \in {j \in 1..Len(Sources) :
                                                     fs[Sources[j]] = "absent"}}

C9_EveryLoaderFailsOnMissing ==
    /\ \A i \in LoadEvents :
          ~events[i].present =>
              /\ events[i].result = "raised"
              /\ pc = "failed" /\ error = "FileNotFoundError"
    /\ RunAbortsOnMissingSource

(***************************************************************************)
(* C9 amended: the headword, frequency and academic-list loaders, called   *)
(* on a location that does not exist, raise the missing-source error and   *)
(* return no mapping; the subject-tag loader called on a location that     *)
(* does not exist returns an empty mapping; in a run, a location absent    *)
(* after the retrieval step (the subject repository included) aborts the   *)
(* run before any loader is called, with every missing location listed.    *)
(***************************************************************************)
C9_LoadersOnMissingSource ==
    /\ \A i \in LoadEvents :
          ~events[i].present =>
              IF events[i].src = "xiaolai"
              THEN /\ events[i].result = "returned"
                   /\ xiaolai_tags = <<>>
                   /\ error = "none"
              ELSE /\ events[i].result = "raised"
                   /\ pc = "failed" /\ error = "FileNotFoundError"
                   /\ kaj_map = <<>> /\ ecdict_map = <<>> /\ awl_words = {}
    /\ RunAbortsOnMissingSource

C9_Witness ==
    /\ entry = "load_xiaolai_subject_tags"
    /\ pc = "returned"
    /\ fs.xiaolai = "absent"
    /\ xiaolai_tags = <<>>
    /\ error = "none"

(***************************************************************************)
(* C11 as stated: for any two records r1 and r2 of the same word within    *)
(* one source the merged record is the same whether r1 is loaded before    *)
(* r2 or r2 before r1.                                                     *)
(***************************************************************************)
C11_MergeCommutative ==
    (pc = "merge" /\ Len(merge_fed) = 2) =>
        /\ merge_cur = LoadedRecord(merge_kind, merge_fed)
        /\ merge_cur = LoadedRecord(merge_kind, <<merge_fed[2], merge_fed[1]>>)

(***************************************************************************)
(* C11 amended: the merged record is the same in both orders in `tags`     *)
(* (a union) and in every other field in which r1 and r2 do not both       *)
(* carry a value or carry the same one (headword `meaning`: of different   *)
(* lengths, or equal); where both carry different values (headword         *)
(* `meaning`: different meanings of equal length) the merged field is      *)
(* that of the record loaded first.                                        *)
(***************************************************************************)
\* One field of the merge of r1 then r2 (m12) and of r2 then r1 (m21).
FirstWins(a, b, m12, m21, empty) ==
    IF a = empty \/ b = empty \/ a = b
    THEN m12 = m21
    ELSE m12 = a /\ m21 = b

C11_MergeOrderOnlyInConflicts ==
    (pc = "merge" /\ Len(merge_fed) = 2) =>
        LET r1 == merge_fed[1]
            r2 == merge_fed[2]
            m12 == merge_cur[1]
            m21 == LoadedRecord(merge_kind, <<r2, r1>>)[1]
        IN  /\ merge_cur = LoadedRecord(merge_kind, merge_fed)
            /\ FirstWins(r1.pos, r2.pos, m12.pos, m21.pos, <<>>)
            /\ IF merge_kind = "kaj"
               THEN IF Len(r1.meaning) # Len(r2.meaning) \/ r1.meaning = r2.meaning
                    THEN m12.meaning = m21.meaning
                    ELSE m12.meaning = r1.meaning /\ m21.meaning = r2.meaning
               ELSE /\ m12.tags = m21.tags
                    /\ m12.tags = r1.tags \cup r2.tags
                    /\ FirstWins(r1.phonetic, r2.phonetic, m12.phonetic, m21.phonetic, <<>>)
                    /\ FirstWins(r1.meaning, r2.meaning, m12.meaning, m21.meaning, <<>>)
                    /\ FirstWins(r1.coca_rank, r2.coca_rank, m12.coca_rank,
                                 m21.coca_rank, None)

C11_Witness ==
    /\ pc = "merge"
    /\ merge_kind = "ecdict"
    /\ Len(merge_fed) = 2
    /\ merge_fed[1].phonetic = S_phon /\ merge_fed[2].phonetic = S_phon2
    /\ merge_fed[1].coca_rank = None /\ merge_fed[2].coca_rank = 2
    /\ merge_fed[1].tags = {"toefl"} /\ merge_fed[2].tags = {}
    /\ merge_cur[1].phonetic = S_phon
    /\ merge_cur[1].coca_rank = 2
    /\ merge_cur # LoadedRecord(merge_kind, <<merge_fed[2], merge_fed[1]>>)

(***************************************************************************)
(* C12 as stated: for every retrieved source, the locations are tried in   *)
(* their configured order, each attempt but the last one has failed (the   *)
(* first success stops the attempts), a failed attempt that is not at the  *)
(* last location is followed by an attempt at the next one, and the        *)
(* retrieval step fails for a source only after every location of that     *)
(* source has been tried and has failed.                                   *)
(***************************************************************************)
FetchesOf(src) == SelectSeq(events, LAMBDA e : e.op = "fetch" /\ e.src = src)

RetrievalFailed ==
    /\ pc = "failed"
    /\ events # <<>>
    /\ events[Len(events)].op = "fetch"

AllLocationsFailed(src) ==
    LET f == FetchesOf(src)
    IN  /\ Len(f) = NumLocations(src)
        /\ \A k \in 1..Len(f) : ~f[k].ok

FallsThroughInOrder ==
    \A src \in Range(Sources) :
        LET f == FetchesOf(src)
        IN  /\ Len(f) <= NumLocations(src)
            /\ \A k \in 1..Len(f) :
                  /\ f[k].loc = k
                  /\ k < Len(f) => ~f[k].ok
            /\ (f # <<>> /\ ~f[Len(f)].ok /\ Len(f) < NumLocations(src)) =>
                  /\ events[Len(events)] = f[Len(f)]
                  /\ pc = "dl_ecdict_try"
                  /\ url_idx = Len(f) + 1

C12_FatalOnlyAfterEveryLocationFailed ==
    /\ FallsThroughInOrder
    /\ RetrievalFailed => AllLocationsFailed(events[Len(events)].src)

(***************************************************************************)
(* C12 amended: as stated, except that the retrieval step also fails       *)
(* for the academic word list when its single location was retrieved       *)
(* successfully and the content is not JSON or yields no word.             *)
(***************************************************************************)
C12_FatalAfterLocationsFailedOrAwlUnusable ==
    /\ FallsThroughInOrder
    /\ RetrievalFailed =>
          LET src == events[Len(events)].src
          IN  IF AllLocationsFailed(src)
              THEN error = (IF src = "ecdict" THEN "RuntimeError"
                            ELSE IF src = "awl" THEN "RequestException"
                            ELSE "CalledProcessError")
              ELSE /\ src = "awl"
                   /\ FetchesOf("awl") = <<Fetch("awl", 1, TRUE)>>
                   /\ error \in {"JSONDecodeError", "RuntimeError"}
    /\ (pc = "dl_ecdict_try" /\ url_idx > NumECDictUrls) => AllLocationsFailed("ecdict")

C12_Witness ==
    /\ FetchesOf("ecdict") = <<Fetch("ecdict", 1, FALSE), Fetch("ecdict", 2, TRUE)>>
    /\ RetrievalFailed
    /\ events[Len(events)] = Fetch("awl", 1, TRUE)
    /\ error = "RuntimeError"

(***************************************************************************)
(* C13: every emitted entry, in the core list and in the full list, has    *)
(* as `meaning` the headword record's meaning when that is non-empty,      *)
(* otherwise the frequency record's meaning, otherwise the empty string,   *)
(* and as `pos` the frequency record's (normalized) pos when that is       *)
(* non-empty, otherwise the headword record's pos normalized, otherwise    *)
(* the empty string; whatever the entry's tier and list.                   *)
(***************************************************************************)
S_vt_dot == <<118, 116, 46>>

\* What normalizing each raw headword pos of KajFieldRecords has to give.
NormalizedHeadwordPos(raw) ==
    CASE raw = S_vt_raw -> S_vt_dot
      [] raw = S_n -> S_n_dot
      [] raw = <<46>> -> <<>>
      [] raw = <<>> -> <<>>

HeadwordField(word, field) ==
    IF word \in DOMAIN kaj_map THEN kaj_map[word][field] ELSE <<>>

FrequencyField(word, field) ==
    IF word \in DOMAIN ecdict_map THEN ecdict_map[word][field] ELSE <<>>

FieldsFollowPrecedence(entries) ==
    \A i \in 1..Len(entries) :
        LET e == entries[i]
        IN  /\ e.meaning = (IF HeadwordField(e.word, "meaning") # <<>>
                            THEN HeadwordField(e.word, "meaning")
                            ELSE FrequencyField(e.word, "meaning"))
            /\ e.pos = (IF FrequencyField(e.word, "pos") # <<>>
                        THEN FrequencyField(e.word, "pos")
                        ELSE NormalizedHeadwordPos(HeadwordField(e.word, "pos")))

C13_MeaningAndPosPrecedence ==
    EntriesBuilt =>
        /\ FieldsFollowPrecedence(core_entries)
        /\ FieldsFollowPrecedence(full_entries)

C13_Witness ==
    /\ EntriesBuilt
    /\ Len(core_entries) = 1
    /\ Len(full_entries) = 1
    /\ HeadwordField(S_abate, "meaning") = S_jianruo
    /\ FrequencyField(S_abate, "meaning") = S_hefeng
    /\ HeadwordField(S_abate, "pos") = S_vt_raw
    /\ FrequencyField(S_abate, "pos") = S_n_dot
    /\ full_entries[1].meaning = S_jianruo
    /\ full_entries[1].pos = S_n_dot
    /\ core_entries[1].meaning = S_jianruo
    /\ core_entries[1].pos = S_n_dot

(***************************************************************************)
(* C14: the word sequence of the full list is the sorted core batch, then  *)
(* the sorted layer_c batch, then the sorted layer_d batch, then the       *)
(* sorted layer_e batch; nothing is removed as a duplicate, so its length  *)
(* is |core| + |layer_c| + |layer_d| + |layer_e|; the core list's word     *)
(* sequence is a prefix of it; and core entries come before extended       *)
(* ones, those before subject ones, those before supplementary ones.       *)
(***************************************************************************)
WordSeq(entries) == [i \in 1..Len(entries) |-> entries[i].word]

\* w1 sorts before w2: known ranks first and ascending, then the words
SortsBefore(w1, w2) ==
    LET r1 == rank_of(w1, ecdict_map)
        r2 == rank_of(w2, ecdict_map)
    IN  \/ r1 # None /\ r2 = None
        \/ r1 # None /\ r2 # None /\ r1 < r2
        \/ r1 = r2 /\ LexLess(w1, w2)

\* The one arrangement of the batch S in sorting order.
SortedBatch(S) ==
    CHOOSE s \in Iterations(S) :
        \A i \in 1..Len(s) : \A j \in 1..Len(s) : i < j => SortsBefore(s[i], s[j])

TierPriority(tier) ==
    CASE tier = "core" -> 1
      [] tier = "extended" -> 2
      [] tier = "subject" -> 3
      [] tier = "supplementary" -> 4

C14_FullListIsConcatenationOfBatches ==
    EntriesBuilt =>
        /\ WordSeq(full_entries) =
              SortedBatch(layers.core) \o SortedBatch(layers.layer_c)
                  \o SortedBatch(layers.layer_d) \o SortedBatch(layers.layer_e)
        /\ Len(full_entries) =
              Cardinality(layers.core) + Cardinality(layers.layer_c)
                  + Cardinality(layers.layer_d) + Cardinality(layers.layer_e)
        /\ Len(core_entries) = Cardinality(layers.core)
        /\ WordSeq(core_entries) = SubSeq(WordSeq(full_entries), 1, Len(core_entries))
        /\ \A i \in 1..Len(full_entries) : \A j \in 1..Len(full_entries) :
              i < j => TierPriority(full_entries[i].tier)
                          <= TierPriority(full_entries[j].tier)
        /\ \A i \in 1..Len(full_entries) :
              LET e == full_entries[i]
              IN  /\ e.tier = "core" <=> e.word \in layers.core
                  /\ e.tier = "extended" <=> e.word \in layers.layer_c
                  /\ e.tier = "subject" <=> e.word \in layers.layer_d
                  /\ e.tier = "supplementary" <=> e.word \in layers.layer_e

C14_Witness ==
    /\ EntriesBuilt
    /\ layers.layer_c = {S_zephyr}
    /\ layers.layer_d = {S_abate}
    /\ WordSeq(full_entries) = <<S_zephyr, S_abate>>
    /\ full_entries[1].tier = "extended"
    /\ full_entries[2].tier = "subject"
    /\ core_entries = <<>>

====
